---- MODULE Spec2Model ----
(***************************************************************************)
(* FoxDot/lib/Patterns/Sequences.py: the pattern functions PSum, PAlt,     *)
(* PZip, PZip2, PDur, PDelay, PQuicken, PRhythm and the group constructor  *)
(* P(...).                                                                 *)
(*                                                                         *)
(* Numbers that Python holds as floats are exact rationals <<num, den>>    *)
(* with den > 0, in lowest terms.  Every float the modelled inputs produce *)
(* is a dyadic rational of small magnitude (PSum, PDur) or is only ordered *)
(* against its predecessor (PQuicken), so rounding plays no part.          *)
(*                                                                         *)
(* A list or Pattern is the sequence of its elements.  Main.py, PGroups.py *)
(* and Utils.py are not part of the sources at hand: LCM, modi, rotate,    *)
(* accum, EuclidsAlgorithm and PulsesToDurations follow the written        *)
(* specification of those collaborators.                                   *)
(***************************************************************************)
EXTENDS Integers, Sequences, FiniteSets, TLC

(* ------------------------------ bounds --------------------------------- *)
MaxSumN == 5
MaxTotal == 8
MaxLen == 3
MaxPats == 3
MaxPulses == 5
MaxSteps == 8
MaxStart == 2
MaxRhythmPulses == 3
MaxRhythmLen == 2
MaxDoublings == 4
MaxQSteps == 3
MaxQStepsize == 4
MaxArgs == 3

(* --------------------------- float arithmetic -------------------------- *)
Abs(x) == IF x < 0 THEN -x ELSE x

RECURSIVE GCD(_, _)
GCD(a, b) == IF b = 0 THEN a ELSE GCD(b, a % b)

\* the rational n/d (d # 0) in lowest terms with a positive denominator
Rat(n, d) ==
    LET s == IF d < 0 THEN -1 ELSE 1
        g == GCD(Abs(n), Abs(d))
    IN  <<(s * n) \div g, (s * d) \div g>>

Zero == Rat(0, 1)
One == Rat(1, 1)
Half == Rat(1, 2)

RAdd(a, b) == Rat(a[1] * b[2] + b[1] * a[2], a[2] * b[2])
RMul(a, b) == Rat(a[1] * b[1], a[2] * b[2])
\* true division (from __future__ import division); b # 0
RDiv(a, b) == Rat(a[1] * b[2], a[2] * b[1])
\* difference and magnitude, as the properties below measure them
RSub(a, b) == RAdd(a, Rat(-b[1], b[2]))
RLt(a, b) == a[1] * b[2] < b[1] * a[2]
RLeq(a, b) == a[1] * b[2] <= b[1] * a[2]
RGt(a, b) == RLt(b, a)
RGeq(a, b) == RLeq(b, a)
RAbs(a) == <<Abs(a[1]), a[2]>>

\* the builtin sum over a list or Pattern of numbers
RECURSIVE sum(_)
sum(data) == IF data = <<>> THEN Zero ELSE RAdd(data[1], sum(Tail(data)))

(* ------------------------------- PSum ---------------------------------- *)
DefaultLim == Rat(1, 8)

\* first loop: the uniform guess, halved while it sums to more than total
RECURSIVE PSumUniform(_, _, _, _)
PSumUniform(n, total, data, step) ==
    IF RGt(sum(data), total)
    THEN PSumUniform(n, total, [x \in 1..n |-> step], RMul(step, Half))
    ELSE <<data, step>>

\* second loop: add step round-robin, halving it when it would overshoot
RECURSIVE PSumFill(_, _, _, _, _, _)
PSumFill(n, total, lim, data, step, i) ==
    IF RLt(sum(data), total) /\ RGeq(step, lim)
    THEN IF RGt(RAdd(sum(data), step), total)
         THEN PSumFill(n, total, lim, data, RMul(step, Half), i)
         ELSE PSumFill(n, total, lim,
                       [data EXCEPT ![(i % n) + 1] = RAdd(@, step)], step, i + 1)
    ELSE data

PSum(n, total, lim) ==
    LET guess == PSumUniform(n, total, <<RAdd(total, One)>>, One)
    IN  PSumFill(n, total, lim, guess[1], guess[2], 0)

Lims == {DefaultLim, Rat(1, 2)}

(* ----------------------- collaborators (Utils.py) ---------------------- *)
\* least common multiple of a non-empty list of positive lengths
RECURSIVE LCM(_)
LCM(ls) ==
    IF Len(ls) = 1 THEN ls[1]
    ELSE LET r == LCM(Tail(ls)) IN (ls[1] * r) \div GCD(ls[1], r)

\* modular index: array[i % len(array)], 0-based
modi(array, i) == array[(i % Len(array)) + 1]

Lengths(item) == [j \in 1..Len(item) |-> Len(item[j])]

(* -------------------------------- PAlt --------------------------------- *)
\* for i in item: data.append(modi(i, n))
RECURSIVE PAltInner(_, _, _, _)
PAltInner(data, item, n, j) ==
    IF j > Len(item) THEN data
    ELSE PAltInner(Append(data, modi(item[j], n)), item, n, j + 1)

\* for n in range(size): ...
RECURSIVE PAltOuter(_, _, _, _)
PAltOuter(data, item, size, n) ==
    IF n >= size THEN data
    ELSE PAltOuter(PAltInner(data, item, n, 1), item, size, n + 1)

\* mutant: one element per round, taken from the inputs in turn
PAlt_OnePerRound(item) ==
    [p \in 1..LCM(Lengths(item)) |-> modi(modi(item, p - 1), p - 1)]

\* mutant: the two loops swapped, each input emitted whole before the next
PAlt_LoopsSwapped(item) ==
    LET size == LCM(Lengths(item))
    IN  [p \in 1..(size * Len(item)) |->
            modi(item[((p - 1) \div size) + 1], (p - 1) % size)]

\* item = [pat1, pat2] + list(patN)
PAlt(item) == PAltOuter(<<>>, item, LCM(Lengths(item)), 0)

(* ----------------------------- PZip, PZip2 ----------------------------- *)
PZip(p) ==
    LET length == LCM(Lengths(p))
    IN  [i \in 1..length |-> [j \in 1..Len(p) |-> modi(p[j], i - 1)]]

Rules == {"always", "lt", "eq", "neq", "never"}

\* the rule argument, a two-place predicate; "always" is the default lambda
rule(r, a, b) ==
    CASE r = "always" -> TRUE
      [] r = "lt"     -> a < b
      [] r = "eq"     -> a = b
      [] r = "neq"    -> a # b
      [] r = "never"  -> FALSE

RECURSIVE PZip2Loop(_, _, _, _, _, _)
PZip2Loop(data, pat1, pat2, r, length, i) ==
    IF i < length
    THEN LET a == modi(pat1, i)
             b == modi(pat2, i)
         IN  PZip2Loop(IF rule(r, a, b) THEN Append(data, <<a, b>>) ELSE data,
                       pat1, pat2, r, length, i + 1)
    ELSE data

\* mutant: the index starts at 1, so the first pair is never looked at
PZip2_SkipsFirst(pat1, pat2, r) ==
    PZip2Loop(<<>>, pat1, pat2, r, LCM(<<Len(pat1), Len(pat2)>>), 1)

PZip2(pat1, pat2, r) ==
    PZip2Loop(<<>>, pat1, pat2, r, LCM(<<Len(pat1), Len(pat2)>>), 0)

(* --------------- collaborators (Utils.py, Main.py) --------------------- *)
\* for i in range(n): data[i] += data[-1]; del data[-1]
RECURSIVE EuclidMerge(_, _, _)
EuclidMerge(data, n, i) ==
    IF i > n THEN data
    ELSE EuclidMerge([SubSeq(data, 1, Len(data) - 1) EXCEPT ![i] = @ \o data[Len(data)]],
                     n, i + 1)

\* Bjorklund's bisection: distribute the remainder groups over the leading groups
RECURSIVE Bjorklund(_, _, _)
Bjorklund(data, n, kk) ==
    LET k1 == kk - n
    IN  IF k1 <= 1 THEN data
        ELSE LET n2 == IF k1 < n THEN k1 ELSE n
                 k2 == IF k1 < n THEN n ELSE k1
             IN  Bjorklund(EuclidMerge(data, n2, 1), n2, k2)

RECURSIVE Flatten(_)
Flatten(groups) == IF groups = <<>> THEN <<>> ELSE groups[1] \o Flatten(Tail(groups))

\* euclid(n, k) for 1 <= n <= k: k steps holding n pulses, spread evenly
EuclidsAlgorithm(n, kk) ==
    Flatten(Bjorklund([i \in 1..kk |-> IF i <= n THEN <<1>> ELSE <<0>>], n, kk))

\* euclid fails with InvalidArgument when n <= 0 or k <= 0
EuclidRaises(n, kk) == n <= 0 \/ kk <= 0

\* run lengths between consecutive pulses, the last one running to the end
RECURSIVE PulsesToDurationsLoop(_, _, _)
PulsesToDurationsLoop(rest, count, seq) ==
    IF rest = <<>> THEN Append(seq, count)
    ELSE IF Head(rest) = 1
         THEN PulsesToDurationsLoop(Tail(rest), 1, Append(seq, count))
         ELSE PulsesToDurationsLoop(Tail(rest), count + 1, seq)

PulsesToDurations(data) == PulsesToDurationsLoop(Tail(data), 1, <<>>)

\* Pattern.rotate(n): cyclic shift left by n
rotate(pat, n) == [i \in 1..Len(pat) |-> pat[((i - 1 + n) % Len(pat)) + 1]]

\* Pattern.accum(): element i is the sum of the elements before it
accum(pat) == [i \in 1..Len(pat) |-> sum(SubSeq(pat, 1, i - 1))]

\* Pattern * number, elementwise, for a Pattern of integers
Scale(pat, d) == [i \in 1..Len(pat) |-> RMul(Rat(pat[i], 1), d)]

(* -------------------------------- PDur --------------------------------- *)
DefaultDur == Rat(1, 4)

\* mutant: the steps double but the step length stays
HalveDur_Forgotten(d) == d

\* the body of `while n > k`
DoubleSteps(kk) == kk * 2
HalveDur(d) == RDiv(d, Rat(2, 1))

\* after the loop: the durations of the Euclidean rhythm, rotated and scaled
PDurBody(n, kk, start, d) ==
    LET pattern == PulsesToDurations(EuclidsAlgorithm(n, kk))
        rotated == IF start # 0 THEN rotate(pattern, start) ELSE pattern
    IN  Scale(rotated, d)

RECURSIVE PDurLoop(_, _, _)
PDurLoop(n, kk, d) ==
    IF n > kk THEN PDurLoop(n, DoubleSteps(kk), HalveDur(d)) ELSE <<kk, d>>

\* PDur as one evaluation, for n >= 1 and k >= 1 (the loop then ends)
PDur(n, kk, start, d) ==
    LET l == PDurLoop(n, kk, d) IN PDurBody(n, l[1], start, l[2])

(* ------------------------------ PQuicken ------------------------------- *)
\* mutant: the offset steps back instead of forward
PQuickenAdvance_Backwards(count, d, stepsize) == RSub(count, RDiv(d, Rat(stepsize, 1)))

\* count += dur / stepsize
PQuickenAdvance(count, d, stepsize) == RAdd(count, RDiv(d, Rat(stepsize, 1)))

\* for j in range(stepsize-1): delay.append(count); count += dur / stepsize
RECURSIVE PQuickenInner(_, _, _, _, _)
PQuickenInner(delay, count, d, stepsize, j) ==
    IF j >= stepsize - 1 THEN <<delay, count>>
    ELSE PQuickenInner(Append(delay, count), PQuickenAdvance(count, d, stepsize),
                       d, stepsize, j + 1)

\* for i in range(steps): ...; dur /= stepsize
RECURSIVE PQuickenOuter(_, _, _, _, _, _)
PQuickenOuter(delay, count, d, stepsize, steps, i) ==
    IF i >= steps THEN delay
    ELSE LET r == PQuickenInner(delay, count, d, stepsize, 0)
         IN  PQuickenOuter(r[1], r[2], RDiv(d, Rat(stepsize, 1)), stepsize, steps, i + 1)

PQuicken(d, stepsize, steps) == PQuickenOuter(<<>>, Zero, d, stepsize, steps, 0)

(* ------------------------------ PRhythm -------------------------------- *)
\* the elements of a rhythm specification: a number, a tuple (n, k), a list
Num(r) == [t |-> "num", v |-> r]
Tup(n, kk) == [t |-> "tuple", v |-> <<n, kk>>]
Lst(l) == [t |-> "list", v |-> l]

\* mutant: the [1:] is missing, the leading 0 stays in the group
PRhythmGroup_KeepsZero(d) == [t |-> "PGroup", v |-> <<sum(d)>> \o accum(d)]

\* PGroup(sum(dur) | dur.accum()[1:])
PRhythmGroup(d) == [t |-> "PGroup", v |-> <<sum(d)>> \o Tail(accum(d))]

RECURSIVE PRhythm(_)
PRhythmItem(item) ==
    CASE item.t = "list"  -> [t |-> "Pattern", v |-> PRhythm(item.v)]
      [] item.t = "tuple" -> PRhythmGroup(PDur(item.v[1], item.v[2], 0, DefaultDur))
      [] OTHER            -> item

PRhythm(durations) ==
    IF Len(durations) = 1
    THEN LET item == durations[1]
         IN  IF item.t = "tuple"
             THEN LET d == PDur(item.v[1], item.v[2], 0, DefaultDur)
                  IN  [i \in 1..Len(d) |-> Num(d[i])]
             ELSE durations
    ELSE [i \in 1..Len(durations) |-> PRhythmItem(durations[i])]

(* --------------------------------- P() --------------------------------- *)
\* PGroup(args if len(args) > 1 else args[0]); args[0] of () is an IndexError
PCallRaises(a) == Len(a) = 0
PCall(a) == [t |-> "PGroup", v |-> IF Len(a) > 1 THEN a ELSE a[1]]

(* ------------------------------- inputs -------------------------------- *)
Values == 0..1
\* the non-empty lists of at most MaxLen values
Lists == UNION {[1..m -> Values] : m \in 1..MaxLen}
\* the list of the given length whose elements are all different and name
\* the argument j they come from: <<10j, 10j + 1, ...>>
Labelled(j, len) == [i \in 1..len |-> 10 * j + (i - 1)]
\* pat1, pat2, *patN: two lists of values, or two or more labelled lists
ListArgs ==
    [1..2 -> Lists] \cup
    UNION {{[j \in 1..m |-> Labelled(j, lens[j])] : lens \in [1..m -> 1..MaxLen]} :
           m \in 2..MaxPats}

\* n >= 1, total > 0 (whole numbers and quarters), lim
Totals == {Rat(t, d) : t \in 1..MaxTotal, d \in {1, 4}}
PSumArgs == {<<n, total, lim>> : n \in 1..MaxSumN, total \in Totals, lim \in Lims}

PZip2Args == {<<pat1, pat2, r>> : pat1 \in Lists, pat2 \in Lists, r \in Rules}

Durs == {Rat(-1, 4), Zero, DefaultDur, Half}
\* n, k, start, dur: valid and invalid ones
PDurArgs ==
    {<<n, kk, start, d>> : n \in -1..MaxPulses, kk \in -1..MaxSteps,
                           start \in -1..MaxStart, d \in Durs}

PQuickenArgs ==
    {<<d, stepsize, steps>> : d \in {DefaultDur, Half, One},
                              stepsize \in 1..MaxQStepsize, steps \in 0..MaxQSteps}

RhythmSpecs == {Tup(n, kk) : n \in 1..MaxRhythmPulses, kk \in 1..MaxSteps}
Scalars == {Num(Half), Num(One)}
Nested == {Lst(l) : l \in UNION {[1..m -> {Num(One), Tup(2, 3)}] : m \in 1..2}}
RhythmElems == Scalars \cup RhythmSpecs \cup Nested
PRhythmArgs == UNION {[1..m -> RhythmElems] : m \in 0..MaxRhythmLen}

PCallArgs == UNION {[1..m -> Values] : m \in 0..MaxArgs}

(* ------------------------------- state --------------------------------- *)
VARIABLES
    fn,         \* the function called
    args,       \* its arguments, in the order of its signature
    pc,         \* "call" (running), "returned", "raised"
    k,          \* PDur's local k
    dur,        \* PDur's local dur
    doublings,  \* iterations of PDur's loop taken so far
    result,     \* the value returned
    error       \* the exception raised, "none" when there is none

vars == <<fn, args, pc, k, dur, doublings, result, error>>

\* a call of f with arguments from A that is about to run
Called(f, A) ==
    /\ fn = f
    /\ args \in A
    /\ k = 0
    /\ dur = Zero

\* a call of PDur, directly or from PDelay: k and dur are its parameters
CalledPDur(f) ==
    /\ fn = f
    /\ args \in PDurArgs
    /\ k = args[2]
    /\ dur = args[4]

Init ==
    /\ pc = "call"
    /\ doublings = 0
    /\ result = <<>>
    /\ error = "none"
    /\ \/ Called("PSum", PSumArgs)
       \/ Called("PAlt", ListArgs)
       \/ Called("PZip", ListArgs)
       \/ Called("PZip2", PZip2Args)
       \/ CalledPDur("PDur")
       \/ CalledPDur("PDelay")
       \/ Called("PQuicken", PQuickenArgs)
       \/ Called("PRhythm", PRhythmArgs)
       \/ Called("P", PCallArgs)

Return(r) ==
    /\ pc = "call"
    /\ pc' = "returned"
    /\ result' = r
    /\ UNCHANGED <<fn, args, k, dur, doublings, error>>

Raise(e) ==
    /\ pc = "call"
    /\ pc' = "raised"
    /\ error' = e
    /\ UNCHANGED <<fn, args, k, dur, doublings, result>>

CallPSum ==
    /\ fn = "PSum"
    /\ Return(PSum(args[1], args[2], args[3]))

CallPAlt ==
    /\ fn = "PAlt"
    /\ Return(PAlt(args))

CallPZip ==
    /\ fn = "PZip"
    /\ Return(PZip(args))

CallPZip2 ==
    /\ fn = "PZip2"
    /\ Return(PZip2(args[1], args[2], args[3]))

\* one iteration of `while n > k`, in PDur or in the PDur that PDelay calls;
\* with k <= 0 < n the loop has no exit, and MaxDoublings cuts the run short
PDurWhile ==
    /\ pc = "call"
    /\ fn \in {"PDur", "PDelay"}
    /\ args[1] > k
    /\ doublings < MaxDoublings
    /\ k' = DoubleSteps(k)
    /\ dur' = HalveDur(dur)
    /\ doublings' = doublings + 1
    /\ UNCHANGED <<fn, args, pc, result, error>>

PDurReturn ==
    /\ fn = "PDur"
    /\ ~(args[1] > k)
    /\ ~EuclidRaises(args[1], k)
    /\ Return(PDurBody(args[1], k, args[3], dur))

PDurRaise ==
    /\ fn = "PDur"
    /\ ~(args[1] > k)
    /\ EuclidRaises(args[1], k)
    /\ Raise("InvalidArgument")

\* PDur(*args).accum().group()
PDelayReturn ==
    /\ fn = "PDelay"
    /\ ~(args[1] > k)
    /\ ~EuclidRaises(args[1], k)
    /\ Return([t |-> "PGroup", v |-> accum(PDurBody(args[1], k, args[3], dur))])

PDelayRaise ==
    /\ fn = "PDelay"
    /\ ~(args[1] > k)
    /\ EuclidRaises(args[1], k)
    /\ Raise("InvalidArgument")

CallPQuicken ==
    /\ fn = "PQuicken"
    /\ Return([t |-> "PGroup", v |-> PQuicken(args[1], args[2], args[3])])

CallPRhythm ==
    /\ fn = "PRhythm"
    /\ Return(PRhythm(args))

CallP ==
    /\ fn = "P"
    /\ IF PCallRaises(args) THEN Raise("IndexError") ELSE Return(PCall(args))

Next ==
    \/ CallPSum
    \/ CallPAlt
    \/ CallPZip
    \/ CallPZip2
    \/ PDurWhile
    \/ PDurReturn
    \/ PDurRaise
    \/ PDelayReturn
    \/ PDelayRaise
    \/ CallPQuicken
    \/ CallPRhythm
    \/ CallP

Spec == Init /\ [][Next]_vars

(* ------------------------------- claims -------------------------------- *)
Returned(f) == fn = f /\ pc = "returned"

\* C1: for n >= 1, total > 0 and the default lim 0.125, PSum(n, total) returns
\* exactly n elements whose sum is within 0.125 of total.
C1_SumWithinTolerance ==
    (Returned("PSum") /\ args[3] = DefaultLim) =>
        /\ Len(result) = args[1]
        /\ RLeq(RAbs(RSub(args[2], sum(result))), DefaultLim)

\* C2: PSum(3, 8) returns exactly the Pattern [3, 3, 2].
C2_PSum_3_8 ==
    (Returned("PSum") /\ args = <<3, Rat(8, 1), DefaultLim>>) =>
        result = <<Rat(3, 1), Rat(3, 1), Rat(2, 1)>>

\* C3 as stated: for two or more non-empty inputs the Pattern PAlt returns has
\* length LCM of the input lengths.
C3_LengthIsLCM ==
    Returned("PAlt") => Len(result) = LCM(Lengths(args))

\* C3 as amended: for m >= 2 non-empty inputs the Pattern PAlt returns has
\* length m * LCM of the input lengths; PAlt of a 3-list and a 2-list has 12.
C3_LengthIsCountTimesLCM ==
    Returned("PAlt") => Len(result) = Len(args) * LCM(Lengths(args))

C3_Witness ==
    /\ Returned("PAlt")
    /\ Lengths(args) = <<3, 2>>
    /\ Len(result) = 12

\* C4: PAlt emits round-robin: with m inputs and L the LCM of their lengths,
\* for every round n in 0..L-1 and input j in 0..m-1 the output at position
\* n*m + j is seq_j[n mod len(seq_j)].
C4_RoundRobinOrder ==
    Returned("PAlt") =>
        LET m == Len(args)
            L == LCM(Lengths(args))
        IN  \A n \in 0..(L - 1), j \in 0..(m - 1) :
                /\ n * m + j + 1 \in DOMAIN result
                /\ result[n * m + j + 1] = args[j + 1][(n % Len(args[j + 1])) + 1]

C4_Witness ==
    /\ Returned("PAlt")
    /\ args = <<Labelled(1, 3), Labelled(2, 2), Labelled(3, 1)>>
    /\ SubSeq(result, 1, 6) = <<10, 20, 30, 11, 21, 30>>

\* C5: for n >= 1, k >= 1 and dur > 0 the durations PDur(n, k, start, dur)
\* returns sum to k * dur for the k and dur passed in, also when n > k makes
\* the loop double k and halve dur.
C5_PDurKeepsCycleDuration ==
    (Returned("PDur") /\ args[1] >= 1 /\ args[2] >= 1 /\ RGt(args[4], Zero)) =>
        sum(result) = RMul(Rat(args[2], 1), args[4])

C5_Witness ==
    /\ Returned("PDur")
    /\ args[1] >= 1 /\ args[2] >= 1 /\ RGt(args[4], Zero)
    /\ doublings >= 2
    /\ args[3] # 0

InvalidPDurArgs == args[1] <= 0 \/ args[2] <= 0 \/ RLeq(args[4], Zero)

\* C6: PDur called with a zero or negative n, k or dur fails with InvalidArgument
\* at that call: it neither returns a Pattern nor goes round the `while n > k` loop.
C6_InvalidArgumentRaised ==
    (fn = "PDur" /\ InvalidPDurArgs) => (pc # "returned" /\ doublings = 0)

\* the tuples of zipped that satisfy rule r, in their order
Filtered(zipped, r) == SelectSeq(zipped, LAMBDA tup : rule(r, tup[1], tup[2]))

\* C7: PZip2(pat1, pat2, rule) is PZip(pat1, pat2) with the tuples failing rule
\* removed and the order of the others kept; with the default always-true rule
\* it equals PZip(pat1, pat2) and has LCM(len(pat1), len(pat2)) elements.
C7_PZip2IsFilteredPZip ==
    Returned("PZip2") =>
        LET zipped == PZip(<<args[1], args[2]>>)
        IN  /\ result = Filtered(zipped, args[3])
            /\ args[3] = "always" =>
                   /\ result = zipped
                   /\ Len(result) = LCM(<<Len(args[1]), Len(args[2])>>)

C7_Witness ==
    /\ Returned("PZip2")
    /\ args[3] = "lt"
    /\ Len(args[1]) = 3 /\ Len(args[2]) = 2
    /\ Len(result) = 2

\* the first offset is 0 and no offset is below the one before it
StartsAtZeroNonDecreasing(s) ==
    /\ s # <<>>
    /\ s[1] = Zero
    /\ \A i \in 1..(Len(s) - 1) : RLeq(s[i], s[i + 1])

\* C8: for dur > 0, stepsize >= 2, steps >= 1 the offsets of PQuicken, and for
\* n >= 1, k >= 1 (dur > 0) the offsets of PDelay, start at 0 and never decrease.
C8_OffsetsNonDecreasing ==
    /\ (Returned("PQuicken") /\ RGt(args[1], Zero) /\ args[2] >= 2 /\ args[3] >= 1) =>
           StartsAtZeroNonDecreasing(result.v)
    /\ (Returned("PDelay") /\ args[1] >= 1 /\ args[2] >= 1 /\ RGt(args[4], Zero)) =>
           StartsAtZeroNonDecreasing(result.v)

C8_Witness ==
    /\ Returned("PQuicken")
    /\ args[2] >= 3 /\ args[3] >= 2
    /\ Len(result.v) >= 4
    /\ RLt(result.v[1], result.v[Len(result.v)])

\* C9: P() with zero values returns the neutral element, an empty group, and
\* raises no error.
C9_EmptyGroupIsNeutral ==
    (fn = "P" /\ Len(args) = 0 /\ pc # "call") =>
        /\ pc = "returned"
        /\ error = "none"
        /\ result.v = <<>>

\* C10: for an input of two or more elements PRhythm returns a Pattern of the
\* same length; a scalar stays as it is at its position; a pair (n, k) with
\* 1 <= n <= k becomes a group of exactly n values: the total k * 0.25, then
\* the n-1 onsets of PDur(n, k) without the initial 0, each strictly between
\* 0 and the total, increasing; PRhythm([1,(3,8)]) = P[1,(2,0.75,1.5)].
C10_PRhythmGroups ==
    (Returned("PRhythm") /\ Len(args) >= 2) =>
        /\ Len(result) = Len(args)
        /\ \A i \in 1..Len(args) :
            /\ args[i].t = "num" => result[i] = args[i]
            /\ (args[i].t = "tuple" /\ args[i].v[1] <= args[i].v[2]) =>
                LET n == args[i].v[1]
                    total == RMul(Rat(args[i].v[2], 1), DefaultDur)
                    onsets == accum(PDur(n, args[i].v[2], 0, DefaultDur))
                    g == result[i]
                IN  /\ g.t = "PGroup"
                    /\ Len(g.v) = n
                    /\ g.v[1] = total
                    /\ \A j \in 2..n :
                        /\ g.v[j] = onsets[j]
                        /\ RLt(Zero, g.v[j]) /\ RLt(g.v[j], total)
                    /\ \A j \in 2..(n - 1) : RLt(g.v[j], g.v[j + 1])
        /\ args = <<Num(One), Tup(3, 8)>> =>
               result = <<Num(One),
                          [t |-> "PGroup", v |-> <<Rat(2, 1), Rat(3, 4), Rat(3, 2)>>]>>

C10_Witness ==
    /\ Returned("PRhythm")
    /\ args = <<Num(One), Tup(3, 8)>>
    /\ result[2].t = "PGroup"
    /\ Len(result[2].v) = 3

====
